---- MODULE Spec2Model ----
(***************************************************************************)
(* A model of ynnore/my-awesome-agent:                                     *)
(*   - frontend/utils/stream_handler.py : Client, StreamHandler,           *)
(*     EventProcessor, get_chain_response                                  *)
(*   - app/agent.py : the three-node LangGraph workflow, retrieve_docs     *)
(*   - data_ingestion/data_ingestion_pipeline/pipeline.py : the pipeline   *)
(*   - my-agent/frontend/utils/title_summary.py : chain_title              *)
(*                                                                         *)
(* Python strings that are concatenated (message content, display text)    *)
(* are sequences of one-character strings, so "" is <<>> and + is \o.      *)
(* Identifiers that are only compared (run ids, call ids, node names) are  *)
(* TLA+ strings.  Python's None is the string None below.                  *)
(***************************************************************************)
EXTENDS Integers, Sequences, FiniteSets, TLC

VARIABLES
    \* ---- session state and EventProcessor (stream_handler.py) ----
    messages,        \* st.session_state.user_chats[session_id]["messages"]
    session_run_id,  \* st.session_state["run_id"]
    final_content,   \* EventProcessor.final_content
    tool_calls,      \* EventProcessor.tool_calls (buffer of dumped messages)
    current_run_id,  \* EventProcessor.current_run_id
    text,            \* StreamHandler.text
    tools_logs,      \* StreamHandler.tools_logs
    request,         \* the data last passed to Client.stream_messages
    pc,              \* position of process_events
    uuids,           \* number of uuid4 values generated so far
    \* history variables of the running turn
    hist0,           \* messages when process_events was entered
    arg_run_id,      \* the run_id argument of the running call
    consumed,        \* events taken from the stream in this turn, in order
    turns,           \* number of turns started
    nevents,         \* number of events consumed over all turns
    \* ---- the compiled workflow of app/agent.py ----
    g_messages,      \* MessagesState["messages"] of the running graph
    g_active,        \* nodes of the current superstep that have not run yet
    g_next,          \* nodes scheduled for the next superstep
    g_trace,         \* nodes executed so far, in order
    g_status,        \* "idle", "running", "ended" or "failed"
    g_conv0,         \* history: the conversation the turn was invoked with
    g_tool_runs,     \* history: <<tool name, outcome>> of every tool executed
    \* ---- Client (stream_handler.py) ----
    c_state,         \* "none", "ready" (constructed) or "init_error"
    c_url,           \* Client.url
    c_agent,         \* Client.agent
    c_auth,          \* Client.authenticate_request
    c_id_token,      \* Client.id_token
    c_setup,         \* history: agents loaded and set up by constructors
    c_sent,          \* history: what the client transmitted to a backend
    c_call,          \* history: the last call made on the client and its outcome
    c_init,          \* history: the constructor's arguments and what the
                     \* credential services answered during construction
    \* ---- Client.stream_messages on the HTTP backend ----
    h_received,      \* history: response lines delivered by iter_lines so far
    h_yielded,       \* events yielded to the caller so far
    h_printed,       \* lines reported by print at line 162
    h_status,        \* "open", "closed" or the exception that ended the generator
    \* ---- the retrieve_docs tool (app/agent.py) ----
    r_query,         \* the query of the last call
    r_retrieved,     \* retrieved_docs of the last call
    r_ranked,        \* ranked_docs, the artifact the last call returned
    r_formatted,     \* formatted_docs, the content the last call returned
    r_status,        \* "idle", "returned" or the exception the last call raised
    \* ---- one run of the ingestion pipeline (pipeline.py) ----
    p_params,        \* the arguments the pipeline run was submitted with
    p_task,          \* task |-> "pending", "running", "retry", "succeeded", "failed"
    p_attempts,      \* task |-> number of attempts started
    p_output,        \* processed_data.output, once a Process-Data attempt succeeded
    p_input,         \* input_files handed to the Ingest-Data attempts
    p_status,        \* the run: "idle", "running", "succeeded" or "failed"
    \* ---- the title chain (title_summary.py) ----
    t_init,          \* "none" before the module is loaded, then how the try
                     \* block of lines 74-84 ended
    t_chain,         \* chain_title: "unbound", "live" or "dummy"
    t_call,          \* history: the arguments of the last chain_title.invoke
    t_result         \* history: what that call returned or raised

procVars == <<messages, session_run_id, final_content, tool_calls,
              current_run_id, text, tools_logs, request, pc, uuids,
              hist0, arg_run_id, consumed, turns, nevents>>

graphVars == <<g_messages, g_active, g_next, g_trace, g_status, g_conv0,
               g_tool_runs>>

clientVars == <<c_state, c_url, c_agent, c_auth, c_id_token, c_setup, c_sent,
                c_call, c_init>>

httpVars == <<h_received, h_yielded, h_printed, h_status>>

retrieveVars == <<r_query, r_retrieved, r_ranked, r_formatted, r_status>>

pipeVars == <<p_params, p_task, p_attempts, p_output, p_input, p_status>>

titleVars == <<t_init, t_chain, t_call, t_result>>

vars == <<procVars, graphVars, clientVars, httpVars, retrieveVars, pipeVars, titleVars>>

notProc == <<graphVars, clientVars, httpVars, retrieveVars, pipeVars, titleVars>>

notGraph == <<procVars, clientVars, httpVars, retrieveVars, pipeVars, titleVars>>

notClient == <<procVars, graphVars, httpVars, retrieveVars, pipeVars, titleVars>>

notHttp == <<procVars, graphVars, clientVars, retrieveVars, pipeVars, titleVars>>

notRetrieve == <<procVars, graphVars, clientVars, httpVars, pipeVars, titleVars>>

notPipeline == <<procVars, graphVars, clientVars, httpVars, retrieveVars,
                 titleVars>>

notTitle == <<procVars, graphVars, clientVars, httpVars, retrieveVars,
              pipeVars>>

\* ------------------------------------------------------------------ bounds
MaxEvents == 4
MaxTurns == 2

\* ------------------------------------------------------------------ values
None == "None"

\* Python truthiness of an optional string identifier
Truthy(s) == s # None /\ s # ""

\* str(uuid.uuid4()): the n-th generated identifier, distinct from every other
Uuid(n) == "uuid-" \o ToString(n)

\* AIMessage(content=, tool_calls=, id=).model_dump()
AIMessageDump(content, tcs, id) ==
    [type |-> "ai", content |-> content, tool_calls |-> tcs,
     tool_call_id |-> None, id |-> id]

\* ToolMessage(content=, type="tool", tool_call_id=).model_dump()
ToolMessageDump(content, tcid) ==
    [type |-> "tool", content |-> content, tool_calls |-> <<>>,
     tool_call_id |-> tcid, id |-> None]

HumanMessageDump(content) ==
    [type |-> "human", content |-> content, tool_calls |-> <<>>,
     tool_call_id |-> None, id |-> None]

\* ------------------------------------------------------------------ events
\* One element of the stream is a pair (message, metadata); the metadata is
\* discarded by the loop.  A message is modelled by
\*   isdict : isinstance(message, dict)
\*   type   : message.get("type")
\*   fields : the message fields -- message["kwargs"] of a "constructor"
\*            record, the top-level keys of any other dict.
Fields(content, tcs, tcid) ==
    [content |-> content, tool_calls |-> tcs, tool_call_id |-> tcid]

ToolCall(name, id) == [name |-> name, args |-> "q", id |-> id]

Event(isdict, type, fields) ==
    [isdict |-> isdict, type |-> type, fields |-> fields]

ConstructorFields ==
    { Fields(<<>>, <<ToolCall("retrieve_docs", "c1")>>, None),
      Fields(<<"a">>, <<ToolCall("should_continue", "c1")>>, None),
      Fields(<<"d">>, <<>>, "c1"),
      Fields(<<"a">>, <<>>, None),
      Fields(<<"b">>, <<>>, None) }

Events ==
    { Event(TRUE, "constructor", f) : f \in ConstructorFields }
    \cup { Event(TRUE, "ai", Fields(<<"a">>, <<>>, None)),
           Event(FALSE, None, Fields(<<>>, <<>>, None)) }

\* --------------------------------------------- EventProcessor.process_events
\* lines 224-226: only a dict whose type is "constructor" is unwrapped, and the
\* three handlers are nested under that test
IsConstructor(e) == e.isdict /\ e.type = "constructor"

\* line 229
IsToolCalls(e) == IsConstructor(e) /\ e.fields.tool_calls # <<>>

\* line 238
IsToolResponse(e) ==
    IsConstructor(e) /\ ~IsToolCalls(e) /\ Truthy(e.fields.tool_call_id)

\* line 249
IsAIResponse(e) ==
    IsConstructor(e) /\ ~IsToolCalls(e) /\ ~IsToolResponse(e)
    /\ e.fields.content # <<>>

\* lines 233-235: one status line per requested tool call
CallStatus(tcs) ==
    [i \in 1..Len(tcs) |-> <<"Calling tool", tcs[i].name, tcs[i].args>>]

\* a buffer that keeps the tool responses and forgets the tool calls
BufferAfter_ResponsesOnly(buf, e) ==
    IF IsToolResponse(e)
    THEN Append(buf, ToolMessageDump(e.fields.content, e.fields.tool_call_id))
    ELSE buf

\* lines 230-232, 239-244: the buffer after one event
BufferAfter(buf, e) ==
    IF IsToolCalls(e)
    THEN Append(buf, AIMessageDump(<<>>, e.fields.tool_calls, None))
    ELSE IF IsToolResponse(e)
    THEN Append(buf, ToolMessageDump(e.fields.content, e.fields.tool_call_id))
    ELSE buf

\* an answer text that takes the content of every unwrapped record
ContentAfter_AnyContent(fc, e) ==
    IF IsConstructor(e) THEN fc \o e.fields.content ELSE fc

\* line 250
ContentAfter(fc, e) == IF IsAIResponse(e) THEN fc \o e.fields.content ELSE fc

\* StreamHandler.new_token, lines 178-181
new_token(t, token) == t \o token

\* StreamHandler.new_status, lines 183-186, applied as the loop applies it
LogsAfter(logs, e) ==
    IF IsToolCalls(e) THEN logs \o CallStatus(e.fields.tool_calls)
    ELSE IF IsToolResponse(e)
    THEN Append(logs, <<"Tool response", e.fields.content>>)
    ELSE logs

\* the run_id arguments a caller passes: none, an empty one, a real one
RunIdArgs == {None, "", "run-1"}

\* a processor that generates an identifier whatever the caller passed
ChooseRunId_AlwaysFresh(rid, n) == Uuid(n + 1)

\* line 207: run_id or str(uuid.uuid4())
ChooseRunId(rid, n) == IF Truthy(rid) THEN rid ELSE Uuid(n + 1)

InitProc ==
    /\ messages = <<HumanMessageDump(<<"q">>)>>
    /\ session_run_id = None
    /\ final_content = <<>>
    /\ tool_calls = <<>>
    /\ current_run_id = None
    /\ text = <<>>
    /\ tools_logs = <<>>
    /\ request = [messages |-> <<>>, run_id |-> None]
    /\ pc = "idle"
    /\ uuids = 0
    /\ hist0 = messages
    /\ arg_run_id = None
    /\ consumed = <<>>
    /\ turns = 0
    /\ nevents = 0

\* EventProcessor.__init__ (lines 192-200) with a new StreamHandler (170-176),
\* then process_events up to the call of stream_messages (lines 204-221)
StartTurn(rid) ==
    /\ pc \in {"idle", "done", "raised"}
    /\ turns < MaxTurns
    /\ nevents < MaxEvents
    /\ turns' = turns + 1
    /\ final_content' = <<>>
    /\ tool_calls' = <<>>
    /\ text' = <<>>
    /\ tools_logs' = <<>>
    /\ current_run_id' = ChooseRunId(rid, uuids)
    /\ uuids' = IF Truthy(rid) THEN uuids ELSE uuids + 1
    /\ session_run_id' = current_run_id'
    /\ request' = [messages |-> messages, run_id |-> current_run_id']
    /\ hist0' = messages
    /\ arg_run_id' = rid
    /\ consumed' = <<>>
    /\ pc' = "loop"
    /\ UNCHANGED notProc
    /\ UNCHANGED <<messages, nevents>>

\* get_chain_response, lines 292-293: a new processor, no run_id argument
get_chain_response == StartTurn(None)

\* process_events(run_id) called with an identifier
process_events == \E rid \in RunIdArgs \ {None} : StartTurn(rid)

\* the eager variant commits tool messages to the history inside the loop
ConsumeEvent_Eager(e) ==
    /\ pc = "loop"
    /\ nevents < MaxEvents
    /\ nevents' = nevents + 1
    /\ consumed' = Append(consumed, e)
    /\ tool_calls' = BufferAfter(tool_calls, e)
    /\ messages' = messages \o SubSeq(tool_calls', Len(tool_calls) + 1, Len(tool_calls'))
    /\ final_content' = ContentAfter(final_content, e)
    /\ text' = IF IsAIResponse(e) THEN new_token(text, e.fields.content) ELSE text
    /\ tools_logs' = LogsAfter(tools_logs, e)
    /\ UNCHANGED notProc
    /\ UNCHANGED <<session_run_id, current_run_id, request, pc, uuids,
                   hist0, arg_run_id, turns>>

\* one iteration of the loop, lines 223-251
ConsumeEvent(e) ==
    /\ pc = "loop"
    /\ nevents < MaxEvents
    /\ nevents' = nevents + 1
    /\ consumed' = Append(consumed, e)
    /\ tool_calls' = BufferAfter(tool_calls, e)
    /\ final_content' = ContentAfter(final_content, e)
    /\ text' = IF IsAIResponse(e) THEN new_token(text, e.fields.content) ELSE text
    /\ tools_logs' = LogsAfter(tools_logs, e)
    /\ UNCHANGED notProc
    /\ UNCHANGED <<messages, session_run_id, current_run_id, request, pc,
                   uuids, hist0, arg_run_id, turns>>

\* the stream (or the handling of one of its elements) raises inside the loop:
\* the exception leaves process_events at line 223
StreamRaises ==
    /\ pc = "loop"
    /\ pc' = "raised"
    /\ UNCHANGED notProc
    /\ UNCHANGED <<messages, session_run_id, final_content, tool_calls,
                   current_run_id, text, tools_logs, request, uuids, hist0,
                   arg_run_id, consumed, turns, nevents>>

\* line 254: if self.final_content
ShouldCommit_OrTools == final_content # <<>> \/ tool_calls # <<>>

ShouldCommit == final_content # <<>>

\* the stream is exhausted: line 254 decides whether anything is committed
EndOfStream ==
    /\ pc = "loop"
    /\ pc' = IF ShouldCommit THEN "l261" ELSE "done"
    /\ UNCHANGED notProc
    /\ UNCHANGED <<messages, session_run_id, final_content, tool_calls,
                   current_run_id, text, tools_logs, request, uuids, hist0,
                   arg_run_id, consumed, turns, nevents>>

\* lines 255-259
final_message == AIMessageDump(final_content, <<>>, current_run_id)

\* a history rebuilt from the turn's messages alone
WithToolCalls_Replacing(msgs, buf) == buf

\* lines 261-263: messages = messages + self.tool_calls
WithToolCalls_Reversed(msgs, buf) ==
    msgs \o [i \in 1..Len(buf) |-> buf[Len(buf) + 1 - i]]

WithToolCalls(msgs, buf) == msgs \o buf

CommitToolCalls ==
    /\ pc = "l261"
    /\ messages' = WithToolCalls(messages, tool_calls)
    /\ pc' = "l264"
    /\ UNCHANGED notProc
    /\ UNCHANGED <<session_run_id, final_content, tool_calls, current_run_id,
                   text, tools_logs, request, uuids, hist0, arg_run_id,
                   consumed, turns, nevents>>

\* line 264: messages.append(final_message)
CommitFinal ==
    /\ pc = "l264"
    /\ messages' = Append(messages, final_message)
    /\ pc' = "l265"
    /\ UNCHANGED notProc
    /\ UNCHANGED <<session_run_id, final_content, tool_calls, current_run_id,
                   text, tools_logs, request, uuids, hist0, arg_run_id,
                   consumed, turns, nevents>>

\* line 265: st.session_state.run_id = self.current_run_id
CommitRunId ==
    /\ pc = "l265"
    /\ session_run_id' = current_run_id
    /\ pc' = "done"
    /\ UNCHANGED notProc
    /\ UNCHANGED <<messages, final_content, tool_calls, current_run_id, text,
                   tools_logs, request, uuids, hist0, arg_run_id, consumed,
                   turns, nevents>>

NextProc ==
    \/ get_chain_response
    \/ process_events
    \/ \E e \in Events : ConsumeEvent(e)
    \/ StreamRaises
    \/ EndOfStream
    \/ CommitToolCalls
    \/ CommitFinal
    \/ CommitRunId


\* ------------------------------------------------------- app/agent.py
MaxCalls == 2

START == "__start__"

END == "__end__"

\* lines 128, 129, 132: the nodes added to the StateGraph
Nodes == {"agent", "generate", "tools"}

\* a workflow that also lets the agent node lead straight to generate
Edges_SkipTools ==
    { <<START, "agent">>, <<"agent", "tools">>, <<"agent", "generate">>,
      <<"tools", "generate">>, <<"generate", END>> }

\* lines 130, 140, 141, 143: set_entry_point and the three add_edge calls
Edges ==
    { <<START, "agent">>, <<"agent", "tools">>, <<"tools", "generate">>,
      <<"generate", END>> }

Succ(n) == { m \in Nodes : <<n, m>> \in Edges }

\* line 90
tools == {"retrieve_docs", "should_continue"}

\* lines 95-97: bind_tools(tools, tool_choice=...)
tool_choice_Auto == "auto"

tool_choice == "any"

\* line 137
handle_tool_errors_Caught == TRUE

handle_tool_errors == FALSE

\* the tool-call lists a model response can carry: one call id per position
CallId(i) == "c" \o ToString(i)

ToolCallLists(n) ==
    UNION { { [i \in 1..k |-> ToolCall(names[i], CallId(i))] :
              names \in [1..k -> tools] } : k \in n..MaxCalls }

\* ChatVertexAI bound with tool_choice: "any" obliges the model to call at
\* least one of the bound tools and give no direct answer; "auto" leaves it
\* free to answer directly with no tool call
InspectorResponses ==
    IF tool_choice = "any"
    THEN { AIMessageDump(<<>>, tcs, None) : tcs \in ToolCallLists(1) }
    ELSE { AIMessageDump(<<>>, tcs, None) : tcs \in ToolCallLists(1) }
         \cup { AIMessageDump(<<"a">>, <<>>, None) }

\* the conversations a turn is invoked with
Conversations ==
    { <<>>,
      <<HumanMessageDump(<<"q">>)>>,
      <<HumanMessageDump(<<"q">>), AIMessageDump(<<"a">>, <<>>, "run-1"),
        HumanMessageDump(<<"r">>)>> }

\* the answers the response chain can give (line 115)
Answers == { <<"a">>, <<"a", "b">>, <<>> }

\* what one execution of a tool can do: retrieve_docs (lines 74-79) returns
\* or lets the retriever's or the compressor's exception out; should_continue
\* (line 87) returns None
ToolOutcomes(name) ==
    IF name = "retrieve_docs"
    THEN {"ok", "retriever_error", "compressor_error"}
    ELSE {"ok"}

IsError(outcome) == outcome \in {"retriever_error", "compressor_error"}

\* the ToolMessage of one executed call
ToolResult(call, outcome) ==
    IF IsError(outcome)
    THEN ToolMessageDump(<<"e">>, call.id)
    ELSE IF call.name = "retrieve_docs"
    THEN ToolMessageDump(<<"d">>, call.id)
    ELSE ToolMessageDump(<<>>, call.id)

InitGraph ==
    /\ g_messages \in Conversations
    /\ g_conv0 = g_messages
    /\ g_active = Succ(START)
    /\ g_next = {}
    /\ g_trace = <<>>
    /\ g_status = "running"
    /\ g_tool_runs = <<>>

IdleGraph ==
    /\ g_messages = <<>>
    /\ g_conv0 = <<>>
    /\ g_active = {}
    /\ g_next = {}
    /\ g_trace = <<>>
    /\ g_status = "idle"
    /\ g_tool_runs = <<>>

\* the scheduling of the compiled graph: the nodes of a superstep run, their
\* successors form the next superstep, and the run ends when none is left
Scheduled(n) ==
    /\ g_status = "running"
    /\ n \in g_active

Advance(n) ==
    LET rest == g_active \ {n}
        nxt == g_next \cup Succ(n)
    IN  /\ g_trace' = Append(g_trace, n)
        /\ g_active' = IF rest = {} THEN nxt ELSE rest
        /\ g_next' = IF rest = {} THEN {} ELSE nxt
        /\ g_status' = IF rest = {} /\ nxt = {} THEN "ended" ELSE "running"

\* inspect_conversation_node, lines 103-108
inspect_conversation_node ==
    /\ Scheduled("agent")
    /\ \E response \in InspectorResponses :
          g_messages' = Append(g_messages, response)
    /\ Advance("agent")
    /\ UNCHANGED <<g_conv0, g_tool_runs>>
    /\ UNCHANGED notGraph

\* ToolNode(tools, handle_tool_errors), lines 132-139: every tool call of the
\* last message is executed; an exception of a tool leaves the node and the
\* graph unless handle_tool_errors turns it into a ToolMessage
ToolNode ==
    /\ Scheduled("tools")
    /\ LET last == g_messages[Len(g_messages)]
           calls == last.tool_calls
       IN \E outcome \in [1..Len(calls) -> {"ok", "retriever_error", "compressor_error"}] :
            /\ \A i \in 1..Len(calls) : outcome[i] \in ToolOutcomes(calls[i].name)
            /\ g_tool_runs' = g_tool_runs
                   \o [i \in 1..Len(calls) |-> <<calls[i].name, outcome[i]>>]
            /\ IF (\E i \in 1..Len(calls) : IsError(outcome[i]))
                  /\ ~handle_tool_errors
               THEN /\ g_status' = "failed"
                    /\ g_trace' = Append(g_trace, "tools")
                    /\ g_active' = {}
                    /\ g_next' = {}
                    /\ UNCHANGED g_messages
               ELSE /\ g_messages' = g_messages
                        \o [i \in 1..Len(calls) |-> ToolResult(calls[i], outcome[i])]
                    /\ Advance("tools")
    /\ UNCHANGED g_conv0
    /\ UNCHANGED notGraph

\* generate_node, lines 111-116
generate_node ==
    /\ Scheduled("generate")
    /\ \E answer \in Answers :
          g_messages' = Append(g_messages, AIMessageDump(answer, <<>>, None))
    /\ Advance("generate")
    /\ UNCHANGED <<g_conv0, g_tool_runs>>
    /\ UNCHANGED notGraph

NextGraph ==
    \/ inspect_conversation_node
    \/ ToolNode
    \/ generate_node

\* ------------------------------------------------ stream_handler.py: Client
MaxFeedback == 2

\* Python values of mixed type carry their type: a str or a float (floats in
\* hundredths, so 0.25 is Float(25))
Str(s) == <<"str", s>>

Float(h) == <<"float", h>>

\* dict operations: d[k] = v and d.pop(k)
Put(d, k, v) == [x \in DOMAIN d \cup {k} |-> IF x = k THEN v ELSE d[x]]

Pop(d, k) == [x \in DOMAIN d \ {k} |-> d[x]]

\* a URL is its host followed by its path segments; no URL (None or "", both
\* false at lines 86, 127 and 146) is the empty sequence, and so is no agent
NoUrl == <<>>

NoAgent == <<>>

\* urljoin with a relative name replaces the last segment (lines 50, 123, 128)
urljoin(base, name) ==
    IF base = <<>> THEN <<name>>
    ELSE SubSeq(base, 1, Len(base) - 1) \o <<name>>

\* json.dumps of a dict of str and float values (line 135)
JsonValue(v) == IF v[1] = "float" THEN <<"number", v[2]>> ELSE <<"string", v[2]>>

JsonDumps(d) == [k \in DOMAIN d |-> JsonValue(d[k])]

\* the five emoji of lines 109-118, by code point
Emoji == <<"U+1F61E", "U+1F641", "U+1F610", "U+1F642", "U+1F600">>

\* a mapping in which two neighbouring emoji share a score
NormalizeScore_Shifted(score) ==
    IF score = Str(Emoji[1]) THEN Float(0)
    ELSE IF score = Str(Emoji[2]) THEN Float(25)
    ELSE IF score = Str(Emoji[3]) THEN Float(50)
    ELSE IF score = Str(Emoji[4]) THEN Float(50)
    ELSE IF score = Str(Emoji[5]) THEN Float(100)
    ELSE score

\* lines 109-118
NormalizeScore(score) ==
    IF score = Str(Emoji[1]) THEN Float(0)
    ELSE IF score = Str(Emoji[2]) THEN Float(25)
    ELSE IF score = Str(Emoji[3]) THEN Float(50)
    ELSE IF score = Str(Emoji[4]) THEN Float(75)
    ELSE IF score = Str(Emoji[5]) THEN Float(100)
    ELSE score

\* constructor arguments
LocalPath == "app.agent_engine_app.AgentEngineApp"

EngineId == "projects/p/locations/l/reasoningEngines/1"

BaseUrl == <<"host", "">>

PathArgs == {None, LocalPath}

EngineArgs == {None, EngineId}

UrlArgs == {NoUrl, BaseUrl}

\* what the credential services can answer during get_remote_url_config:
\* fetch_id_token (line 56) returns a token, raises DefaultCredentialsError,
\* or raises something else; creds.refresh (line 58) succeeds or raises
FetchOutcomes == {"ok", "DefaultCredentialsError", "TransportError"}

RefreshOutcomes == {"ok", "RefreshError"}

\* a fallback that refreshes the credentials and leaves id_token as it was
RemoteUrlToken_TokenNotTaken(authenticate_request, fetch, refresh) ==
    IF ~authenticate_request THEN [raised |-> None, id_token |-> None]
    ELSE IF fetch = "ok" THEN [raised |-> None, id_token |-> "fetched-token"]
    ELSE IF fetch = "DefaultCredentialsError"
    THEN IF refresh = "ok"
         THEN [raised |-> None, id_token |-> None]
         ELSE [raised |-> refresh, id_token |-> None]
    ELSE [raised |-> fetch, id_token |-> None]

\* get_remote_url_config, lines 48-65: the id_token of the returned config, or
\* the exception that leaves the function
RemoteUrlToken(authenticate_request, fetch, refresh) ==
    IF ~authenticate_request THEN [raised |-> None, id_token |-> None]
    ELSE IF fetch = "ok" THEN [raised |-> None, id_token |-> "fetched-token"]
    ELSE IF fetch = "DefaultCredentialsError"
    THEN IF refresh = "ok"
         THEN [raised |-> None, id_token |-> "ambient-token"]
         ELSE [raised |-> refresh, id_token |-> None]
    ELSE [raised |-> fetch, id_token |-> None]

\* the credential calls get_remote_url_config makes, given the answers the
\* services would give: fetch_id_token only when the request is authenticated
\* (line 53), creds.refresh only in the except clause (line 57)
FetchCalled(authenticate_request, fetch) ==
    IF authenticate_request THEN fetch ELSE "not called"

RefreshCalled(authenticate_request, fetch, refresh) ==
    IF authenticate_request /\ fetch = "DefaultCredentialsError" THEN refresh
    ELSE "not called"

NoInit ==
    [path |-> None, engine |-> None, url |-> NoUrl, auth |-> FALSE,
     fetch |-> "not called", refresh |-> "not called"]

InitClient ==
    /\ c_state = "none"
    /\ c_url = NoUrl
    /\ c_agent = NoAgent
    /\ c_auth = FALSE
    /\ c_id_token = None
    /\ c_setup = <<>>
    /\ c_sent = <<>>
    /\ c_call = [op |-> "none"]
    /\ c_init = NoInit

\* line 99: no agent_callable_path was given
MissingPath_Ignored(agent_callable_path) == FALSE

MissingPath(agent_callable_path) == agent_callable_path = None

\* a constructor that looks at remote_agent_engine_id before url
InitBranch_RemoteFirst(url, remote_agent_engine_id) ==
    IF remote_agent_engine_id # None /\ remote_agent_engine_id # "" THEN "remote"
    ELSE IF url # NoUrl THEN "url"
    ELSE "local"

\* the if / elif / else of lines 86, 93 and 96
InitBranch(url, remote_agent_engine_id) ==
    IF url # NoUrl THEN "url"
    ELSE IF remote_agent_engine_id # None /\ remote_agent_engine_id # "" THEN "remote"
    ELSE "local"

\* Client.__init__, lines 86-104
ClientInit(agent_callable_path, remote_agent_engine_id, url, authenticate_request) ==
    /\ c_state = "none"
    /\ c_call' = [op |-> "__init__", path |-> agent_callable_path,
                  engine |-> remote_agent_engine_id, url |-> url,
                  auth |-> authenticate_request]
    /\ UNCHANGED c_sent
    /\ IF InitBranch(url, remote_agent_engine_id) = "url"
       THEN \E fetch \in FetchOutcomes, refresh \in RefreshOutcomes :
              LET config == RemoteUrlToken(authenticate_request, fetch, refresh)
              IN /\ c_init' =
                      [path |-> agent_callable_path,
                       engine |-> remote_agent_engine_id, url |-> url,
                       auth |-> authenticate_request,
                       fetch |-> FetchCalled(authenticate_request, fetch),
                       refresh |-> RefreshCalled(authenticate_request, fetch,
                                                 refresh)]
                 /\ IF config.raised # None
                    THEN /\ c_state' = "init_error"
                         /\ UNCHANGED <<c_url, c_agent, c_auth, c_id_token, c_setup>>
                    ELSE /\ c_state' = "ready"
                         /\ c_url' = urljoin(url, "stream_messages")
                         /\ c_auth' = authenticate_request
                         /\ c_id_token' = config.id_token
                         /\ c_agent' = NoAgent
                         /\ UNCHANGED c_setup
       ELSE /\ c_init' =
                   [path |-> agent_callable_path,
                    engine |-> remote_agent_engine_id, url |-> url,
                    auth |-> authenticate_request,
                    fetch |-> "not called", refresh |-> "not called"]
            /\ IF InitBranch(url, remote_agent_engine_id) = "remote"
               THEN /\ c_state' = "ready"
                    /\ c_agent' = <<"remote", remote_agent_engine_id>>
                    /\ c_url' = NoUrl
                    /\ UNCHANGED <<c_auth, c_id_token, c_setup>>
               ELSE IF MissingPath(agent_callable_path)
               THEN /\ c_state' = "init_error"
                    /\ c_url' = NoUrl
                    /\ UNCHANGED <<c_agent, c_auth, c_id_token, c_setup>>
               ELSE /\ c_state' = "ready"
                    /\ c_url' = NoUrl
                    /\ c_agent' = <<"local", agent_callable_path>>
                    /\ c_setup' = Append(c_setup, agent_callable_path)
                    /\ UNCHANGED <<c_auth, c_id_token>>
    /\ UNCHANGED notClient

\* the feedback records a caller passes and the run ids it names
Scores == { Str(Emoji[i]) : i \in 1..5 } \cup { Str("x"), Float(50) }

FeedbackDicts ==
    { [score |-> s, type |-> Str("faces")] : s \in Scores }
    \cup { [score |-> s, type |-> Str("faces"), text |-> Str("t")] :
               s \in {Str(Emoji[1]), Str("x")} }
    \cup { [score |-> s] : s \in {Str(Emoji[1]), Str("x")} }
    \cup { [type |-> Str("faces")] }

RunIds == {"uuid-1", "run-1"}

\* a normalisation that removes the type field only when there is one
Normalized_TypeOptional(feedback_dict, run_id) ==
    IF "score" \notin DOMAIN feedback_dict THEN [raised |-> "KeyError"]
    ELSE LET d1 == Put(feedback_dict, "score", NormalizeScore(feedback_dict["score"]))
             d2 == Put(d1, "run_id", Str(run_id))
             d3 == Put(d2, "log_type", Str("feedback"))
         IN [raised |-> None, record |-> Pop(d3, "type")]

\* lines 108-122: the record after normalisation, or the KeyError of a
\* missing key
Normalized(feedback_dict, run_id) ==
    IF "score" \notin DOMAIN feedback_dict THEN [raised |-> "KeyError"]
    ELSE LET d1 == Put(feedback_dict, "score", NormalizeScore(feedback_dict["score"]))
             d2 == Put(d1, "run_id", Str(run_id))
             d3 == Put(d2, "log_type", Str("feedback"))
         IN IF "type" \notin DOMAIN d3 THEN [raised |-> "KeyError"]
            ELSE [raised |-> None, record |-> Pop(d3, "type")]

\* lines 127-136: the POST to the feedback endpoint
FeedbackPost(record) ==
    [via |-> "http", target |-> urljoin(c_url, "feedback"),
     bearer |-> IF c_auth THEN c_id_token ELSE None,
     body |-> JsonDumps(record)]

\* line 138: agent.register_feedback(feedback=feedback_dict)
FeedbackRegister(record) ==
    [via |-> "agent", target |-> c_agent, bearer |-> None, body |-> record]

\* the if / elif chains of lines 127-140 and 146-164: which backend a call
\* goes to
Backend_AgentByDefault(url, agent) ==
    IF url # NoUrl THEN "http" ELSE "agent"

Backend(url, agent) ==
    IF url # NoUrl THEN "http"
    ELSE IF agent # NoAgent THEN "agent"
    ELSE "none"

\* Client.log_feedback, lines 106-140
log_feedback(feedback_dict, run_id) ==
    /\ c_state = "ready"
    /\ Len(c_sent) < MaxFeedback
    /\ LET n == Normalized(feedback_dict, run_id)
           backend == Backend(c_url, c_agent)
           outcome == IF n.raised # None THEN n.raised
                      ELSE IF backend = "none" THEN "ValueError"
                      ELSE "ok"
       IN /\ c_call' = [op |-> "log_feedback", feedback_dict |-> feedback_dict,
                        run_id |-> run_id, outcome |-> outcome,
                        sent_before |-> Len(c_sent)]
          /\ c_sent' = IF outcome # "ok" THEN c_sent
                       ELSE IF backend = "http"
                       THEN Append(c_sent, FeedbackPost(n.record))
                       ELSE Append(c_sent, FeedbackRegister(n.record))
    /\ UNCHANGED <<c_state, c_url, c_agent, c_auth, c_id_token, c_setup,
                   c_init>>
    /\ UNCHANGED notClient

\* the data of a stream request: the conversation and its config
StreamInputs == {"input-1"}

\* lines 147-155: the POST that opens the event stream
StreamPost(data) ==
    [via |-> "http", target |-> c_url,
     bearer |-> IF c_auth THEN c_id_token ELSE None,
     body |-> <<"input", data>>]

\* line 164: agent.stream_query(input=data)
StreamQuery(data) ==
    [via |-> "agent", target |-> c_agent, bearer |-> None,
     body |-> <<"input", data>>]

\* Client.stream_messages, lines 142-164: the request it makes (the events
\* read from the response are the subject of the HTTP part below)
stream_messages(data) ==
    /\ c_state = "ready"
    /\ Len(c_sent) < MaxFeedback
    /\ LET backend == Backend(c_url, c_agent)
       IN /\ c_call' = [op |-> "stream_messages", data |-> data,
                        outcome |-> "ok"]
          /\ c_sent' = IF backend = "http" THEN Append(c_sent, StreamPost(data))
                       ELSE IF backend = "agent"
                       THEN Append(c_sent, StreamQuery(data))
                       ELSE c_sent
    /\ UNCHANGED <<c_state, c_url, c_agent, c_auth, c_id_token, c_setup,
                   c_init>>
    /\ UNCHANGED notClient

\* A Client object as log_feedback and stream_messages find it: its url,
\* agent, authenticate_request and id_token attributes.  The last one has
\* neither a URL nor an agent, the case of lines 139-140.
ClientObjects ==
    { [url |-> urljoin(BaseUrl, "stream_messages"), agent |-> NoAgent,
       auth |-> FALSE, id_token |-> None],
      [url |-> urljoin(BaseUrl, "stream_messages"), agent |-> NoAgent,
       auth |-> TRUE, id_token |-> "fetched-token"],
      [url |-> NoUrl, agent |-> <<"remote", EngineId>>,
       auth |-> FALSE, id_token |-> None],
      [url |-> NoUrl, agent |-> <<"local", LocalPath>>,
       auth |-> FALSE, id_token |-> None],
      [url |-> NoUrl, agent |-> NoAgent, auth |-> FALSE, id_token |-> None] }

InitClientObject ==
    \E o \in ClientObjects :
        /\ c_state = "ready"
        /\ c_url = o.url
        /\ c_agent = o.agent
        /\ c_auth = o.auth
        /\ c_id_token = o.id_token
        /\ c_setup = <<>>
        /\ c_sent = <<>>
        /\ c_call = [op |-> "none"]
        /\ c_init = NoInit

NextClientCalls ==
    \/ \E d \in FeedbackDicts, r \in RunIds : log_feedback(d, r)
    \/ \E data \in StreamInputs : stream_messages(data)

NextClient ==
    \/ \E p \in PathArgs, id \in EngineArgs, u \in UrlArgs, a \in BOOLEAN :
          ClientInit(p, id, u, a)
    \/ NextClientCalls

\* ------------------------- Client.stream_messages on the HTTP backend
MaxLines == 3

\* A response line is a sequence of bytes.  The bytes used are ASCII
\* characters and the byte 0xFF, which no UTF-8 text contains.
BadByte == "0xFF"

\* line.decode("utf-8"): UnicodeDecodeError on a byte that is not UTF-8,
\* otherwise the same ASCII characters
Decodes(line) == \A i \in 1..Len(line) : line[i] # BadByte

ParseFail == [ok |-> FALSE, val |-> <<>>, next |-> 0]

\* json.loads on the JSON made of the digits 0 and 1 and of arrays: a
\* recursive descent that returns the value read at position i and the
\* position after it
RECURSIVE ParseValue(_, _), ParseElements(_, _, _)
ParseValue(s, i) ==
    IF i > Len(s) THEN ParseFail
    ELSE IF s[i] \in {"0", "1"}
    THEN [ok |-> TRUE, val |-> <<"number", s[i]>>, next |-> i + 1]
    ELSE IF s[i] = "["
    THEN IF i + 1 <= Len(s) /\ s[i + 1] = "]"
         THEN [ok |-> TRUE, val |-> <<"array", <<>>>>, next |-> i + 2]
         ELSE ParseElements(s, i + 1, <<>>)
    ELSE ParseFail

ParseElements(s, i, acc) ==
    LET v == ParseValue(s, i)
    IN  IF ~v.ok THEN ParseFail
        ELSE IF v.next <= Len(s) /\ s[v.next] = ","
        THEN ParseElements(s, v.next + 1, Append(acc, v.val))
        ELSE IF v.next <= Len(s) /\ s[v.next] = "]"
        THEN [ok |-> TRUE, val |-> <<"array", Append(acc, v.val)>>,
              next |-> v.next + 1]
        ELSE ParseFail

\* json.loads(text): the whole text must be one value (JSONDecodeError otherwise)
json_loads(s) ==
    LET v == ParseValue(s, 1)
    IN  IF v.ok /\ v.next = Len(s) + 1 THEN v ELSE ParseFail

\* the lines a server can send
Lines ==
    { <<>>,
      <<"1">>,
      <<"[", "1", ",", "0", "]">>,
      <<"[", "]">>,
      <<"[", "1">>,
      <<"1", "]">>,
      <<"x">>,
      <<BadByte>> }

InitHttp ==
    /\ h_received = <<>>
    /\ h_yielded = <<>>
    /\ h_printed = <<>>
    /\ h_status = "open"

IdleHttp ==
    /\ h_received = <<>>
    /\ h_yielded = <<>>
    /\ h_printed = <<>>
    /\ h_status = "closed"

\* one iteration of lines 156-162 on the next line of response.iter_lines()
StreamLine(line) ==
    /\ h_status = "open"
    /\ Len(h_received) < MaxLines
    /\ h_received' = Append(h_received, line)
    /\ IF line = <<>>
       THEN UNCHANGED <<h_yielded, h_printed, h_status>>
       ELSE IF ~Decodes(line)
       THEN /\ h_status' = "UnicodeDecodeError"
            /\ UNCHANGED <<h_yielded, h_printed>>
       ELSE IF json_loads(line).ok
       THEN /\ h_yielded' = Append(h_yielded, json_loads(line).val)
            /\ UNCHANGED <<h_printed, h_status>>
       ELSE /\ h_printed' = Append(h_printed, line)
            /\ UNCHANGED <<h_yielded, h_status>>
    /\ UNCHANGED notHttp

\* iter_lines is exhausted: the with block of line 153 is left normally
StreamEnd ==
    /\ h_status = "open"
    /\ h_status' = "closed"
    /\ UNCHANGED <<h_received, h_yielded, h_printed>>
    /\ UNCHANGED notHttp

\* the transport fails while the body is read (timeout, broken connection)
StreamTransportError ==
    /\ h_status = "open"
    /\ h_status' = "ConnectionError"
    /\ UNCHANGED <<h_received, h_yielded, h_printed>>
    /\ UNCHANGED notHttp

NextHttp ==
    \/ \E line \in Lines : StreamLine(line)
    \/ StreamEnd
    \/ StreamTransportError

\* ------------------------------------------------- retrieve_docs (agent.py)
TOP_K == 5

max_documents == 10

Queries == {"q1", "q2"}

\* Document number i of the datastore's answer to a query; the retriever
\* lists its candidates by decreasing vector similarity.
Candidates(n) == [i \in 1..n |-> i]

\* retriever.invoke(query): up to max_documents candidates, or a failure of
\* the search service.
RetrieverResults ==
    {[raised |-> None, docs |-> Candidates(n)] : n \in 0..max_documents}
        \cup {[raised |-> "retriever_error", docs |-> <<>>]}

Reverse(docs) == [i \in 1..Len(docs) |-> docs[Len(docs) + 1 - i]]

\* compressor.compress_documents(documents, query) of the compressor built
\* by get_compressor(project_id=project_id): a reordered, truncated subset of
\* the candidates.  How many it keeps is the ranking service's policy, and
\* the call at lines 56-58 passes no count.
CompressorResults(docs) ==
    {[raised |-> None, docs |-> SubSeq(order, 1, k)] :
        order \in {docs, Reverse(docs)}, k \in 0..Len(docs)}
        \cup {[raised |-> "compressor_error", docs |-> <<>>]}

\* format_docs.format(docs=...): one rendered section per document, in order
format_docs(docs) == [i \in 1..Len(docs) |-> <<"document", docs[i]>>]

IdleRetrieve ==
    /\ r_query = None
    /\ r_retrieved = <<>>
    /\ r_ranked = <<>>
    /\ r_formatted = <<>>
    /\ r_status = "idle"

retrieve_docs(query) ==
    \E retrieved \in RetrieverResults :
        /\ r_query' = query
        /\ r_retrieved' = retrieved.docs
        /\ IF retrieved.raised # None
           THEN /\ r_status' = retrieved.raised
                /\ r_ranked' = <<>>
                /\ r_formatted' = <<>>
           ELSE \E ranked \in CompressorResults(retrieved.docs) :
                    IF ranked.raised # None
                    THEN /\ r_status' = ranked.raised
                         /\ r_ranked' = <<>>
                         /\ r_formatted' = <<>>
                    ELSE /\ r_status' = "returned"
                         /\ r_ranked' = ranked.docs
                         /\ r_formatted' = format_docs(ranked.docs)
        /\ UNCHANGED notRetrieve

NextRetrieve == \E query \in Queries : retrieve_docs(query)

\* ------------------------------------------- the pipeline (pipeline.py)
\* The two tasks pipeline() declares; the pipeline service executes them.
Tasks == {"process_data", "ingest_data"}

\* set_retry(num_retries=2) on each task
num_retries_process_data == 2

num_retries_ingest_data == 2

num_retries(task) ==
    IF task = "process_data" THEN num_retries_process_data
    ELSE num_retries_ingest_data

\* a task runs once and is run again after each failure, num_retries times
MaxAttempts_OneMore(task) == 1 + num_retries(task) + 1

MaxAttempts(task) == 1 + num_retries(task)

\* the tasks whose outputs a task takes as inputs:
\* ingest_data(input_files=processed_data.output)
Upstream_Independent(task) == {}

Upstream(task) == IF task = "ingest_data" THEN {"process_data"} ELSE {}

\* the arguments of a run: the defaults of lines 26-27 and one other value
PipelineParams ==
    [is_incremental : BOOLEAN, look_back_days : {1, 7}]

\* the artifact an attempt of Process-Data emits when it succeeds
Artifact(params, attempt) == <<"processed", params, attempt>>

NoArtifact == <<>>

NoParams == [is_incremental |-> FALSE, look_back_days |-> 0]

IdlePipeline ==
    /\ p_params = NoParams
    /\ p_task = [t \in Tasks |-> "pending"]
    /\ p_attempts = [t \in Tasks |-> 0]
    /\ p_output = NoArtifact
    /\ p_input = NoArtifact
    /\ p_status = "idle"

InitPipeline ==
    /\ p_params \in PipelineParams
    /\ p_task = [t \in Tasks |-> "pending"]
    /\ p_attempts = [t \in Tasks |-> 0]
    /\ p_output = NoArtifact
    /\ p_input = NoArtifact
    /\ p_status = "running"

\* the service starts an attempt of a task whose upstream tasks succeeded
StartAttempt(task) ==
    /\ p_status = "running"
    /\ p_task[task] \in {"pending", "retry"}
    /\ p_attempts[task] < MaxAttempts(task)
    /\ \A u \in Upstream(task) : p_task[u] = "succeeded"
    /\ p_task' = [p_task EXCEPT ![task] = "running"]
    /\ p_attempts' = [p_attempts EXCEPT ![task] = @ + 1]
    /\ p_input' = IF task = "ingest_data" THEN p_output ELSE p_input
    /\ UNCHANGED <<p_params, p_output, p_status>>
    /\ UNCHANGED notPipeline

AttemptSucceeds(task) ==
    /\ p_status = "running"
    /\ p_task[task] = "running"
    /\ p_task' = [p_task EXCEPT ![task] = "succeeded"]
    /\ p_output' = IF task = "process_data"
                   THEN Artifact(p_params, p_attempts[task])
                   ELSE p_output
    /\ p_status' = IF \A t \in Tasks \ {task} : p_task[t] = "succeeded"
                   THEN "succeeded"
                   ELSE "running"
    /\ UNCHANGED <<p_params, p_attempts, p_input>>
    /\ UNCHANGED notPipeline

AttemptFails(task) ==
    /\ p_status = "running"
    /\ p_task[task] = "running"
    /\ IF p_attempts[task] < MaxAttempts(task)
       THEN /\ p_task' = [p_task EXCEPT ![task] = "retry"]
            /\ p_status' = "running"
       ELSE /\ p_task' = [p_task EXCEPT ![task] = "failed"]
            /\ p_status' = "failed"
    /\ UNCHANGED <<p_params, p_attempts, p_output, p_input>>
    /\ UNCHANGED notPipeline

NextPipeline ==
    \E task \in Tasks :
        \/ StartAttempt(task)
        \/ AttemptSucceeds(task)
        \/ AttemptFails(task)

\* --------------------------------------- the title chain (title_summary.py)
AIMessage(content) == [type |-> "ai", content |-> content]

\* how the try block of lines 74-84 can end: normally, or with an exception
\* of google.auth.default() (line 76) or of ChatVertexAI(...) (lines 78-83)
TitleInitOutcomes == {"ok", "DefaultCredentialsError", "ChatVertexAIError"}

\* what callers pass to chain_title.invoke: positional and keyword arguments
TitleInputs ==
    { [messages |-> <<>>],
      [messages |-> <<HumanMessageDump(<<"h">>)>>],
      [messages |-> <<HumanMessageDump(<<"h">>),
                      AIMessageDump(<<"a">>, <<>>, "run-1")>>] }

TitleConfigs == {[run_name |-> "title"], [run_name |-> "summary"]}

TitleArgs ==
    {<<>>} \cup {<<i>> : i \in TitleInputs}
        \cup {<<i, c>> : i \in TitleInputs, c \in TitleConfigs}

TitleKwargs == {<<>>} \cup {<<"config", c>> : c \in TitleConfigs}

\* the titles the generation model can answer with
ModelTitles == {"New Conversation", "A short title"}

\* title_template | llm, line 84: invoke needs the input; the model answers
\* with a title or the service call fails
LiveResults(args, kwargs) ==
    IF args = <<>> THEN {[raised |-> "TypeError", value |-> None]}
    ELSE {[raised |-> None, value |-> AIMessage(title)] : title \in ModelTitles}
             \cup {[raised |-> "ServiceError", value |-> None]}

\* a stand-in that echoes the model's answer to an empty conversation
DummyChain_invoke_ByInput(args, kwargs) ==
    IF args # <<>> /\ args[1].messages = <<>>
    THEN [raised |-> None, value |-> AIMessage("New Conversation")]
    ELSE [raised |-> None, value |-> AIMessage("conversation")]

\* DummyChain.invoke(*args, **kwargs), lines 91-92
DummyChain_invoke(args, kwargs) ==
    [raised |-> None, value |-> AIMessage("conversation")]

NoTitleCall == [args |-> <<>>, kwargs |-> <<>>, made |-> FALSE]

NoTitleResult == [raised |-> None, value |-> None]

IdleTitle ==
    /\ t_init = "none"
    /\ t_chain = "unbound"
    /\ t_call = NoTitleCall
    /\ t_result = NoTitleResult

\* loading the module: lines 74-94
TitleModuleInit(outcome) ==
    /\ t_init = "none"
    /\ t_init' = outcome
    /\ t_chain' = IF outcome = "ok" THEN "live" ELSE "dummy"
    /\ UNCHANGED <<t_call, t_result>>
    /\ UNCHANGED notTitle

\* chain_title.invoke(*args, **kwargs)
TitleInvoke(args, kwargs) ==
    /\ t_chain # "unbound"
    /\ t_call' = [args |-> args, kwargs |-> kwargs, made |-> TRUE]
    /\ IF t_chain = "dummy"
       THEN t_result' = DummyChain_invoke(args, kwargs)
       ELSE t_result' \in LiveResults(args, kwargs)
    /\ UNCHANGED <<t_init, t_chain>>
    /\ UNCHANGED notTitle

NextTitle ==
    \/ \E outcome \in TitleInitOutcomes : TitleModuleInit(outcome)
    \/ \E args \in TitleArgs, kwargs \in TitleKwargs : TitleInvoke(args, kwargs)

\* --------------------------------------------------------- specifications
IdleProc ==
    /\ messages = <<>>
    /\ session_run_id = None
    /\ final_content = <<>>
    /\ tool_calls = <<>>
    /\ current_run_id = None
    /\ text = <<>>
    /\ tools_logs = <<>>
    /\ request = [messages |-> <<>>, run_id |-> None]
    /\ pc = "idle"
    /\ uuids = 0
    /\ hist0 = <<>>
    /\ arg_run_id = None
    /\ consumed = <<>>
    /\ turns = 0
    /\ nevents = 0

\* the chat turn: get_chain_response / process_events on one session
Init == InitProc /\ IdleGraph /\ InitClient /\ IdleHttp /\ IdleRetrieve
    /\ IdlePipeline /\ IdleTitle

Next == NextProc

Spec == Init /\ [][Next]_vars

\* one invocation of the compiled agent graph
InitSpecGraph == IdleProc /\ InitGraph /\ InitClient /\ IdleHttp /\ IdleRetrieve
    /\ IdlePipeline /\ IdleTitle

SpecGraph == InitSpecGraph /\ [][NextGraph]_vars

\* construction of a Client and feedback logging
InitSpecClient == IdleProc /\ IdleGraph /\ InitClient /\ IdleHttp /\ IdleRetrieve
    /\ IdlePipeline /\ IdleTitle

SpecClient == InitSpecClient /\ [][NextClient]_vars

\* calls on a Client object, whatever its attributes are
InitSpecClientCalls ==
    IdleProc /\ IdleGraph /\ InitClientObject /\ IdleHttp /\ IdleRetrieve
    /\ IdlePipeline /\ IdleTitle

SpecClientCalls == InitSpecClientCalls /\ [][NextClientCalls]_vars

\* one streaming response read by the HTTP backend
InitSpecHttp == IdleProc /\ IdleGraph /\ InitClient /\ InitHttp /\ IdleRetrieve
    /\ IdlePipeline /\ IdleTitle

SpecHttp == InitSpecHttp /\ [][NextHttp]_vars

\* calls of the retrieve_docs tool
InitSpecRetrieve ==
    IdleProc /\ IdleGraph /\ InitClient /\ IdleHttp /\ IdleRetrieve
    /\ IdlePipeline /\ IdleTitle

SpecRetrieve == InitSpecRetrieve /\ [][NextRetrieve]_vars

\* one run of the ingestion pipeline
InitSpecPipeline ==
    IdleProc /\ IdleGraph /\ InitClient /\ IdleHttp /\ IdleRetrieve
    /\ InitPipeline /\ IdleTitle

SpecPipeline == InitSpecPipeline /\ [][NextPipeline]_vars

\* loading title_summary.py and invoking chain_title
InitSpecTitle ==
    IdleProc /\ IdleGraph /\ InitClient /\ IdleHttp /\ IdleRetrieve
    /\ IdlePipeline /\ IdleTitle

SpecTitle == InitSpecTitle /\ [][NextTitle]_vars

\* ------------------------------------------------------------------ claims
\* the events of the running turn, as handed over by the stream
ToolCallEvent == Event(TRUE, "constructor",
                       Fields(<<>>, <<ToolCall("retrieve_docs", "c1")>>, None))

ToolResultEvent == Event(TRUE, "constructor", Fields(<<"d">>, <<>>, "c1"))

TokenEvent(c) == Event(TRUE, "constructor", Fields(<<c>>, <<>>, None))

\* the messages the turn's tool-call and tool-result events stand for, in
\* arrival order
RECURSIVE ExpectedToolMessages(_)
ExpectedToolMessages(evs) ==
    IF evs = <<>> THEN <<>>
    ELSE LET e == Head(evs)
             m == IF IsToolCalls(e)
                  THEN <<AIMessageDump(<<>>, e.fields.tool_calls, None)>>
                  ELSE IF IsToolResponse(e)
                  THEN <<ToolMessageDump(e.fields.content, e.fields.tool_call_id)>>
                  ELSE <<>>
         IN m \o ExpectedToolMessages(Tail(evs))

\* the concatenation of the turn's content tokens, in arrival order
RECURSIVE ExpectedContent(_)
ExpectedContent(evs) ==
    IF evs = <<>> THEN <<>>
    ELSE (IF IsAIResponse(Head(evs)) THEN Head(evs).fields.content ELSE <<>>)
         \o ExpectedContent(Tail(evs))

HasContentEvent(evs) == \E i \in 1..Len(evs) : IsAIResponse(evs[i])

\* the part of the history the running turn has added
TurnPart == SubSeq(messages, Len(hist0) + 1, Len(messages))

\* C1: when process_events has returned from a stream that completed and held
\* at least one content event, the history is the history before the call,
\* then one message per tool-call and tool-result event in arrival order, then
\* one final assistant message whose content is the concatenation of the
\* content tokens and whose id is the run identifier sent with the request.
C1_HistoryAfterTurn ==
    (pc = "done" /\ HasContentEvent(consumed)) =>
        messages = hist0 \o ExpectedToolMessages(consumed)
                   \o <<AIMessageDump(ExpectedContent(consumed), <<>>, request.run_id)>>

C1_Witness ==
    /\ pc = "done"
    /\ consumed = <<ToolCallEvent, ToolResultEvent, TokenEvent("a"), TokenEvent("b")>>
    /\ Len(messages) = Len(hist0) + 3
    /\ messages[Len(messages)].content = <<"a", "b">>

\* C2: while events are being consumed, and after the stream has raised
\* part-way through the turn, the history is what it was when process_events
\* was entered.
C2_NoMutationBeforeCompletion ==
    pc \in {"loop", "raised"} => messages = hist0

C2_Witness ==
    /\ pc = "raised"
    /\ tool_calls # <<>>
    /\ final_content # <<>>
    /\ messages = hist0

\* C3: in every state a reader can see, the history holds none of the turn's
\* messages or all of them (the buffered messages and the final message).
C3_NoPartialUpdate ==
    \/ messages = hist0
    \/ messages = hist0 \o tool_calls \o <<final_message>>

\* C4: when process_events has returned from a stream that completed without
\* any content event, the history is what it was before the call, whatever
\* tool-call and tool-result messages were buffered.
C4_NoContentNoCommit ==
    (pc = "done" /\ ~HasContentEvent(consumed)) => messages = hist0

C4_Witness ==
    /\ pc = "done"
    /\ consumed = <<ToolCallEvent, ToolResultEvent>>
    /\ Len(tool_calls) = 2
    /\ messages = hist0

\* every tool message of a sequence names a call id issued by a tool-call
\* message earlier in the sequence
ResultsFollowCalls(msgs) ==
    \A i \in 1..Len(msgs) :
        msgs[i].type = "tool" =>
            \E j \in 1..(i - 1) :
                /\ msgs[j].type = "ai"
                /\ \E k \in 1..Len(msgs[j].tool_calls) :
                      msgs[j].tool_calls[k].id = msgs[i].tool_call_id

\* every tool-result event of a stream follows a tool-call event that issued
\* its call id
StreamResultsFollowCalls(evs) ==
    \A i \in 1..Len(evs) :
        IsToolResponse(evs[i]) =>
            \E j \in 1..(i - 1) :
                /\ IsToolCalls(evs[j])
                /\ \E k \in 1..Len(evs[j].fields.tool_calls) :
                      evs[j].fields.tool_calls[k].id = evs[i].fields.tool_call_id

\* C5, as claimed: whatever stream was delivered, every tool-result message
\* the turn committed references a call id issued by a tool-call message
\* committed earlier in the same turn.
C5_EveryStream ==
    pc = "done" => ResultsFollowCalls(TurnPart)

\* C5, amended: the same, for the streams in which every tool-result event
\* follows a tool-call event that issued its call id.
C5_OrderedStreams ==
    (pc = "done" /\ StreamResultsFollowCalls(consumed)) => ResultsFollowCalls(TurnPart)

C5_Witness ==
    /\ pc = "done"
    /\ StreamResultsFollowCalls(consumed)
    /\ \E i \in 1..Len(TurnPart) : TurnPart[i].type = "tool"

NodeOrder == <<"agent", "tools", "generate">>

IsPrefix(p, q) == Len(p) <= Len(q) /\ p = SubSeq(q, 1, Len(p))

Ran(n) == \E i \in 1..Len(g_trace) : g_trace[i] = n

\* the message the agent node appended to the conversation
InspectorMessage == g_messages[Len(g_conv0) + 1]

ToolFailed == \E i \in 1..Len(g_tool_runs) : IsError(g_tool_runs[i][2])

\* C8: the nodes run one at a time in the order agent, tools, generate, each
\* at most once and none before its predecessor, and a turn that has reached
\* the terminal state has run all three.
C8_NodeOrder ==
    /\ IsPrefix(g_trace, NodeOrder)
    /\ Cardinality(g_active) <= 1
    /\ g_status = "ended" => g_trace = NodeOrder

C8_Witness ==
    /\ g_status = "ended"
    /\ g_trace = NodeOrder
    /\ Len(g_messages) >= Len(g_conv0) + 3

\* C9: once the agent node has run, the message it appended carries at least
\* one tool call, so generate never runs after an inspector response without
\* tool calls.
C9_InspectorCallsTool ==
    Ran("agent") =>
        /\ InspectorMessage.type = "ai"
        /\ Len(InspectorMessage.tool_calls) >= 1

C9_Witness ==
    /\ Ran("generate")
    /\ Len(InspectorMessage.tool_calls) = 2
    /\ InspectorMessage.tool_calls[2].name = "should_continue"

\* C10: once the retriever or the compressor has failed inside retrieve_docs,
\* the turn has failed, generate has not run, and the conversation state ends
\* with the inspector's tool-call message: no answer was added.
C10_ToolErrorFailsTurn ==
    ToolFailed =>
        /\ g_status = "failed"
        /\ ~Ran("generate")
        /\ g_messages = Append(g_conv0, InspectorMessage)

C10_Witness ==
    /\ ToolFailed
    /\ g_status = "failed"
    /\ \E i \in 1..Len(g_tool_runs) : g_tool_runs[i] = <<"retrieve_docs", "compressor_error">>
    /\ \E i \in 1..Len(g_tool_runs) : g_tool_runs[i] = <<"retrieve_docs", "ok">>

\* the score each of the five emoji stands for, in hundredths
ExpectedScore(i) == (i - 1) * 25

\* C6: a log_feedback call whose record carries one of the five emoji (and the
\* type field the call removes) transmits, on the backend the client was
\* built with, a record with the emoji's score, the supplied run id,
\* log_type "feedback" and no type field.
C6_FeedbackRecord ==
    \A i \in 1..5 :
        ( /\ c_call.op = "log_feedback"
          /\ {"score", "type"} \subseteq DOMAIN c_call.feedback_dict
          /\ c_call.feedback_dict["score"] = Str(Emoji[i]) ) =>
            /\ c_call.outcome = "ok"
            /\ c_sent # <<>>
            /\ LET sent == c_sent[Len(c_sent)]
               IN /\ "type" \notin DOMAIN sent.body
                  /\ {"score", "run_id", "log_type"} \subseteq DOMAIN sent.body
                  /\ IF c_url # NoUrl
                     THEN /\ sent.via = "http"
                          /\ sent.body["score"] = <<"number", ExpectedScore(i)>>
                          /\ sent.body["run_id"] = <<"string", c_call.run_id>>
                          /\ sent.body["log_type"] = <<"string", "feedback">>
                     ELSE /\ sent.via = "agent"
                          /\ sent.target = c_agent
                          /\ sent.body["score"] = Float(ExpectedScore(i))
                          /\ sent.body["run_id"] = Str(c_call.run_id)
                          /\ sent.body["log_type"] = Str("feedback")

C6_Witness ==
    /\ c_call.op = "log_feedback"
    /\ c_call.outcome = "ok"
    /\ c_call.feedback_dict["score"] = Str(Emoji[4])
    /\ c_sent[1].via = "http"
    /\ c_sent[1].bearer = "ambient-token"
    /\ c_sent[1].body["score"] = <<"number", 75>>

\* a line is well formed when it is UTF-8 text that is one JSON value
WellFormed(line) == Decodes(line) /\ json_loads(line).ok

RECURSIVE ParsedWellFormed(_)
ParsedWellFormed(lines) ==
    IF lines = <<>> THEN <<>>
    ELSE (IF WellFormed(Head(lines)) THEN <<json_loads(Head(lines)).val>> ELSE <<>>)
         \o ParsedWellFormed(Tail(lines))

\* C7: whatever lines have arrived, the events yielded are the parsed
\* well-formed lines in arrival order, and no line has made the generator
\* raise.
C7_MalformedLinesSkipped ==
    /\ h_status \in {"open", "closed", "ConnectionError"}
    /\ h_yielded = ParsedWellFormed(h_received)

\* C11: every list of documents retrieve_docs returns, and the documents
\* rendered into its formatted text, number at most TOP_K, also when the
\* retriever supplied its full pool of max_documents candidates.
C11_AtMostTopK ==
    r_status = "returned" =>
        /\ Len(r_ranked) <= TOP_K
        /\ Len(r_formatted) <= TOP_K

\* C12: each of the two stages is attempted at most 3 times (one attempt and
\* two retries), and the run is failed exactly when, and in the step in
\* which, a stage has failed on its third attempt.
C12_RetryCeiling ==
    /\ \A t \in Tasks : p_attempts[t] <= 3
    /\ \A t \in Tasks : p_task[t] = "failed" => p_attempts[t] = 3
    /\ p_status = "failed" <=> \E t \in Tasks : p_task[t] = "failed"
    /\ p_status = "failed" => \A t \in Tasks : p_task[t] # "running"

C12_Witness ==
    /\ p_status = "failed"
    /\ p_task["process_data"] = "succeeded"
    /\ p_task["ingest_data"] = "failed"
    /\ p_attempts["ingest_data"] = 3

\* C13: Ingest-Data is never started before Process-Data has succeeded, its
\* input is the artifact the successful Process-Data attempt emitted, and
\* it is never attempted when Process-Data has exhausted its retries.
C13_IngestAfterProcess ==
    /\ p_attempts["ingest_data"] > 0 =>
           /\ p_task["process_data"] = "succeeded"
           /\ p_input = Artifact(p_params, p_attempts["process_data"])
           /\ p_input = p_output
    /\ p_task["process_data"] # "succeeded" =>
           /\ p_task["ingest_data"] = "pending"
           /\ p_attempts["ingest_data"] = 0
           /\ p_input = NoArtifact

C13_Witness ==
    /\ p_status = "succeeded"
    /\ p_attempts["process_data"] = 2
    /\ p_attempts["ingest_data"] = 2
    /\ p_input = Artifact(p_params, 2)

\* C14: a Client constructed with none of agent_callable_path,
\* remote_agent_engine_id and url is not constructed (the constructor
\* raises), and no agent is loaded, instantiated or set up, then or later.
C14_NothingSupplied ==
    (/\ c_state # "none"
     /\ c_init.path = None
     /\ c_init.engine = None
     /\ c_init.url = NoUrl) =>
        /\ c_state = "init_error"
        /\ c_agent = NoAgent
        /\ c_setup = <<>>
        /\ c_sent = <<>>

C14_Witness ==
    /\ c_call.op = "__init__"
    /\ c_init.path = None
    /\ c_init.engine = None
    /\ c_init.url = NoUrl
    /\ c_state = "init_error"

\* C15: log_feedback called on a client that has neither a URL nor an agent
\* raises an error, and no feedback record is transmitted to any backend.
C15_NoBackendRaises ==
    (c_url = NoUrl /\ c_agent = NoAgent) =>
        /\ c_sent = <<>>
        /\ c_call.op = "log_feedback" =>
               c_call.outcome \in {"ValueError", "KeyError"}

C15_Witness ==
    /\ c_url = NoUrl
    /\ c_agent = NoAgent
    /\ c_call.op = "log_feedback"
    /\ "type" \in DOMAIN c_call.feedback_dict
    /\ c_call.outcome = "ValueError"
    /\ c_sent = <<>>

\* C16: when the initialisation of the generation model fails, chain_title
\* is the stand-in, and every invoke of it, whatever the arguments (an empty
\* conversation included), returns the title "conversation" and does not
\* raise.
C16_TitleFallback ==
    t_init \notin {"none", "ok"} =>
        /\ t_chain = "dummy"
        /\ t_call.made =>
               /\ t_result.raised = None
               /\ t_result.value = AIMessage("conversation")
               /\ t_result.value.content = "conversation"

C16_Witness ==
    /\ t_init = "ChatVertexAIError"
    /\ t_call.made
    /\ t_call.args # <<>>
    /\ t_call.args[1].messages = <<>>
    /\ t_result.value.content = "conversation"

\* the client was constructed for the HTTP backend with request
\* authentication, and the direct identity-token fetch ended as said
FetchEnded(outcomes) ==
    /\ c_state # "none"
    /\ c_init.url # NoUrl
    /\ c_init.auth
    /\ c_init.fetch \in outcomes

\* every request transmitted so far went over HTTP with this bearer token
AllBearer(token) ==
    \A i \in 1..Len(c_sent) :
        c_sent[i].via = "http" /\ c_sent[i].bearer = token

\* C17 as stated: whatever failure the direct identity-token fetch ends
\* with, the client is constructed, and the refreshed ambient credentials'
\* identity token is the bearer token of its requests.
C17_AnyFetchFailure ==
    FetchEnded(FetchOutcomes \ {"ok"}) =>
        /\ c_state = "ready"
        /\ c_id_token = "ambient-token"
        /\ AllBearer("ambient-token")

\* C17, amended: when the direct identity-token fetch raises
\* DefaultCredentialsError the ambient credentials are refreshed; if the
\* refresh succeeds the client is constructed and the refreshed credentials'
\* identity token is the bearer token of every later stream and feedback
\* request; if the refresh fails, or the fetch fails with any other
\* exception, the constructor raises and nothing is ever sent.
C17_FallbackOnDefaultCredentialsError ==
    /\ (FetchEnded({"DefaultCredentialsError"}) /\ c_init.refresh = "ok") =>
           /\ c_state = "ready"
           /\ c_id_token = "ambient-token"
           /\ AllBearer("ambient-token")
    /\ (FetchEnded({"DefaultCredentialsError"}) /\ c_init.refresh # "ok") =>
           /\ c_state = "init_error"
           /\ c_sent = <<>>
    /\ FetchEnded(FetchOutcomes \ {"ok", "DefaultCredentialsError"}) =>
           /\ c_state = "init_error"
           /\ c_init.refresh = "not called"
           /\ c_sent = <<>>

C17_Witness ==
    /\ FetchEnded({"DefaultCredentialsError"})
    /\ c_init.refresh = "ok"
    /\ Len(c_sent) = 2
    /\ c_sent[1].target = urljoin(c_url, "stream_messages")
    /\ c_sent[2].target = urljoin(c_url, "feedback")
    /\ AllBearer("ambient-token")

\* an event with visible content, no tool-call requests and no tool-call id;
\* with constructorOnly, one that is a "constructor"-shaped record as well
CarriesAnswer(e, constructorOnly) ==
    /\ e.isdict
    /\ constructorOnly => e.type = "constructor"
    /\ e.fields.content # <<>>
    /\ e.fields.tool_calls = <<>>
    /\ ~Truthy(e.fields.tool_call_id)

\* the content of those events, concatenated in arrival order
RECURSIVE AnswerOf(_, _)
AnswerOf(evs, constructorOnly) ==
    IF evs = <<>> THEN <<>>
    ELSE (IF CarriesAnswer(Head(evs), constructorOnly)
          THEN Head(evs).fields.content ELSE <<>>)
         \o AnswerOf(Tail(evs), constructorOnly)

PlainContentEvent == Event(TRUE, "ai", Fields(<<"a">>, <<>>, None))

ToolCallWithContentEvent ==
    Event(TRUE, "constructor",
          Fields(<<"a">>, <<ToolCall("should_continue", "c1")>>, None))

\* C18 as stated: the answer text and the live display are the concatenation
\* of the content of every event with content and no tool calls or tool-call
\* id, whether or not the event is a "constructor"-shaped record.
C18_AnyShape ==
    pc # "idle" =>
        /\ final_content = AnswerOf(consumed, FALSE)
        /\ text = AnswerOf(consumed, FALSE)

\* C18, amended: the answer text and the live display are the concatenation
\* of the content of the "constructor"-shaped events with content and no tool
\* calls or tool-call id; every other event (one that is not
\* "constructor"-shaped, or carries tool calls or a tool-call id) adds
\* nothing to them.
C18_ConstructorContent ==
    pc # "idle" =>
        /\ final_content = AnswerOf(consumed, TRUE)
        /\ text = AnswerOf(consumed, TRUE)

C18_Witness ==
    /\ pc = "loop"
    /\ consumed = <<ToolCallWithContentEvent, ToolResultEvent, TokenEvent("b"),
                    PlainContentEvent>>
    /\ final_content = <<"b">>
    /\ text = <<"b">>

\* C19: within one call of process_events one run identifier is used: the
\* caller's when the caller passed one, else one generated for this call and
\* used nowhere before; from before the first event is consumed it is the
\* session's run id and the run_id of the request; it is the id of the final
\* message the call commits and the session's run id when the call is over.
C19_SingleRunId ==
    pc # "idle" =>
        /\ Truthy(arg_run_id) => current_run_id = arg_run_id
        /\ ~Truthy(arg_run_id) =>
               /\ current_run_id = Uuid(uuids)
               /\ current_run_id \notin RunIdArgs
               /\ \A i \in 1..Len(hist0) : hist0[i].id # current_run_id
        /\ session_run_id = current_run_id
        /\ request.run_id = current_run_id
        /\ (pc \in {"l265", "done"} /\ messages # hist0) =>
               messages[Len(messages)].id = current_run_id
        /\ \A i \in 1..Len(TurnPart) :
               TurnPart[i].id \in {None, current_run_id}

C19_Witness ==
    /\ pc = "done"
    /\ turns = 2
    /\ arg_run_id = None
    /\ Len(messages) = 3
    /\ messages[2].id = "run-1"
    /\ messages[3].id = Uuid(1)
    /\ session_run_id = Uuid(1)
    /\ request.run_id = Uuid(1)

\* a final assistant message: an assistant message that requests no tool
FinalMessages(msgs) ==
    {i \in 1..Len(msgs) : msgs[i].type = "ai" /\ msgs[i].tool_calls = <<>>}

\* C20: the history is append-only: at every moment of a turn the history the
\* turn started from is a prefix of the history, so no earlier message is
\* removed, moved or rewritten, and the turn has added at most one final
\* assistant message.
C20_AppendOnly ==
    /\ IsPrefix(hist0, messages)
    /\ Cardinality(FinalMessages(TurnPart)) <= 1

C20_Witness ==
    /\ pc = "done"
    /\ turns = 2
    /\ Len(hist0) = 3
    /\ Len(messages) = 5
    /\ IsPrefix(hist0, messages)
    /\ Cardinality(FinalMessages(messages)) = 2

\* the backend the constructor's arguments call for: the URL when one was
\* given, else the remote engine when its id was given, else the local agent
ExpectedBackend ==
    IF c_init.url # NoUrl THEN "url"
    ELSE IF c_init.engine # None THEN "remote"
    ELSE "local"

\* C21: a constructed Client has exactly one backend: the URL (and no agent)
\* when url was given, whatever the other arguments; else the remote engine
\* when remote_agent_engine_id was given; else the local agent, loaded and set
\* up once.  Every request of stream_messages and log_feedback went to that
\* backend.
C21_OneBackend ==
    c_state = "ready" =>
        /\ (c_url # NoUrl) # (c_agent # NoAgent)
        /\ ExpectedBackend = "url" =>
               /\ c_url = urljoin(c_init.url, "stream_messages")
               /\ c_agent = NoAgent
               /\ c_setup = <<>>
               /\ \A i \in 1..Len(c_sent) :
                      /\ c_sent[i].via = "http"
                      /\ c_sent[i].target \in
                             {c_url, urljoin(c_url, "feedback")}
        /\ ExpectedBackend = "remote" =>
               /\ c_url = NoUrl
               /\ c_agent = <<"remote", c_init.engine>>
               /\ c_setup = <<>>
               /\ \A i \in 1..Len(c_sent) :
                      c_sent[i].via = "agent" /\ c_sent[i].target = c_agent
        /\ ExpectedBackend = "local" =>
               /\ c_url = NoUrl
               /\ c_agent = <<"local", c_init.path>>
               /\ c_setup = <<c_init.path>>
               /\ \A i \in 1..Len(c_sent) :
                      c_sent[i].via = "agent" /\ c_sent[i].target = c_agent

C21_Witness ==
    /\ c_state = "ready"
    /\ c_init.url # NoUrl
    /\ c_init.engine # None
    /\ c_init.path # None
    /\ c_agent = NoAgent
    /\ Len(c_sent) = 2
    /\ c_sent[1].target = c_url
    /\ c_sent[2].target = urljoin(c_url, "feedback")

RecognizedScores == {Str(Emoji[i]) : i \in 1..5}

\* C22: a log_feedback call whose record has a type field and a score that
\* is none of the five emoji transmits one record, and its score is the
\* score passed (as a JSON string or number on the HTTP backend); a call
\* whose record has no type field raises, and nothing was transmitted by it.
C22_UnrecognizedScoreAndMissingType ==
    c_call.op = "log_feedback" =>
        LET d == c_call.feedback_dict
        IN /\ ( /\ {"score", "type"} \subseteq DOMAIN d
                /\ d["score"] \notin RecognizedScores ) =>
                  /\ c_call.outcome = "ok"
                  /\ Len(c_sent) = c_call.sent_before + 1
                  /\ LET sent == c_sent[Len(c_sent)]
                     IN IF sent.via = "http"
                        THEN sent.body["score"] =
                                 <<(IF d["score"][1] = "str" THEN "string"
                                    ELSE "number"), d["score"][2]>>
                        ELSE sent.body["score"] = d["score"]
           /\ "type" \notin DOMAIN d =>
                  /\ c_call.outcome = "KeyError"
                  /\ Len(c_sent) = c_call.sent_before

C22_Witness ==
    /\ c_call.op = "log_feedback"
    /\ "score" \in DOMAIN c_call.feedback_dict
    /\ "type" \notin DOMAIN c_call.feedback_dict
    /\ c_call.outcome = "KeyError"
    /\ c_call.sent_before = 1
    /\ Len(c_sent) = 1
    /\ c_sent[1].via = "http"
    /\ c_sent[1].body["score"] = <<"string", "x">>

====
